---- MODULE Spec2Model ----
EXTENDS Integers, Sequences, FiniteSets, TLC

\* Trade journal: the three route handlers of src/app/api/trades, the Trade
\* table they read and write, and the creation form's submit handler.

VARIABLES
    store,  \* the rows of the "Trade" table, in creation order
    req,    \* the last request a handler served, with the table it found
    resp,   \* the response to it: status and JSON body
    ops,    \* the calls the handler made while serving it, in order
    form,   \* the creation form: what was typed and what onSubmit derived
    page,   \* the page the browser shows
    submit, \* the creation form's onSubmit: where it is and what it reported
    list,   \* the trade list loader (useTrades) of the home page
    detail  \* the trade detail page's loader (fetchTrade)

vars == <<store, req, resp, ops, form, page, submit, list, detail>>

\* ------------------------------------------------------------------ bounds

\* The most trades the table holds in a checked run.
MaxTrades == 3

\* The most trades the table holds where every kind of submission is tried.
MaxSubmitted == 2
MaxCreated == 1

\* ------------------------------------------------- JavaScript values

Undefined == [t |-> "undefined", n |-> 0, s |-> ""]
Null == [t |-> "null", n |-> 0, s |-> ""]
NaN == [t |-> "NaN", n |-> 0, s |-> ""]
InvalidDate == [t |-> "Invalid Date", n |-> 0, s |-> ""]
Num(n) == [t |-> "number", n |-> n, s |-> ""]
Str(s) == [t |-> "string", n |-> 0, s |-> s]
DateOf(s) == [t |-> "Date", n |-> 0, s |-> s]

\* ToBoolean: what `!x`, `x || y`, `x && y` and `x ? a : b` test.
Truthy(v) ==
    CASE v.t = "undefined" -> FALSE
      [] v.t = "null" -> FALSE
      [] v.t = "NaN" -> FALSE
      [] v.t = "number" -> v.n # 0
      [] v.t = "string" -> v.s # ""
      [] OTHER -> TRUE

\* a || b
Or(a, b) == IF Truthy(a) THEN a ELSE b

\* a && b
And(a, b) == IF Truthy(a) THEN b ELSE a

\* The decimal numerals the inputs are drawn from, with their values.
Numerals ==
    [s \in {"-100", "-1", "0", "1", "2", "5", "50", "100", "150"} |->
        CASE s = "-100" -> 0 - 100
          [] s = "-1" -> 0 - 1
          [] s = "0" -> 0
          [] s = "1" -> 1
          [] s = "2" -> 2
          [] s = "5" -> 5
          [] s = "50" -> 50
          [] s = "100" -> 100
          [] s = "150" -> 150]

\* parseFloat: a number is converted to its numeral and read back; a string is
\* read as the longest numeric prefix ("100x" reads as 100), NaN when there is none.
parseFloat(v) ==
    CASE v.t = "number" -> v
      [] v.t = "string" /\ v.s \in DOMAIN Numerals -> Num(Numerals[v.s])
      [] v.t = "string" /\ v.s = "100x" -> Num(100)
      [] OTHER -> NaN

\* new Date(x) for an ISO string; any other text gives an Invalid Date.
ValidDates == {"2024-01-01", "2024-02-01"}

NewDate(v) ==
    IF v.t = "string" /\ v.s \in ValidDates THEN DateOf(v.s) ELSE InvalidDate

\* Number arithmetic and comparison (NaN propagates, null counts as 0).
ToNumber(v) ==
    CASE v.t = "number" -> v
      [] v.t = "null" -> Num(0)
      [] OTHER -> NaN

Sub(a, b) ==
    IF ToNumber(a).t = "NaN" \/ ToNumber(b).t = "NaN" THEN NaN
    ELSE Num(ToNumber(a).n - ToNumber(b).n)

Mul(a, b) ==
    IF ToNumber(a).t = "NaN" \/ ToNumber(b).t = "NaN" THEN NaN
    ELSE Num(ToNumber(a).n * ToNumber(b).n)

Gt0(v) == ToNumber(v).t = "number" /\ ToNumber(v).n > 0

Lt0(v) == ToNumber(v).t = "number" /\ ToNumber(v).n < 0

\* ------------------------------------------------------------ identities

Users == {"u1", "u2"}

\* currentUser() resolves to a user object or to null.
NoUser == "null"

Identities == Users \cup {NoUser}

\* Where a handler's collaborator throws in a request, if anywhere.
\* "body" is a JSON body that is no object (null), whose fields cannot be read.
Failures == {"none", "currentUser", "request.json", "body", "prisma"}

\* ------------------------------------------------------- request bodies

Fields ==
    {"cryptoName", "entryDate", "exitDate", "entryPrice", "exitPrice",
     "positionSize", "reason", "notes", "pnl", "outcome", "userId", "id"}

\* A body with every required field and nothing else: an open position.
OpenBody ==
    [cryptoName |-> Str("Bitcoin"), entryDate |-> Str("2024-01-01"),
     exitDate |-> Undefined, entryPrice |-> Num(100), exitPrice |-> Undefined,
     positionSize |-> Num(2), reason |-> Str("breakout"), notes |-> Undefined,
     pnl |-> Undefined, outcome |-> Undefined, userId |-> Undefined,
     id |-> Undefined]

\* A closed position as the creation form sends it.
ClosedBody ==
    [OpenBody EXCEPT !.exitDate = Str("2024-02-01"), !.exitPrice = Num(150),
                     !.notes = Str("note"), !.pnl = Num(100),
                     !.outcome = Str("Profit")]

\* A body that names another user as owner and an existing row's id.
ForgedBody == [OpenBody EXCEPT !.userId = Str("u2"), !.id = Num(1)]

\* The bodies of the requests that build up the table: an open position, a
\* closed one, one the validation turns away, and one with a forged owner.
Bodies ==
    {OpenBody, ClosedBody, [OpenBody EXCEPT !.cryptoName = Undefined], ForgedBody}

\* The submissions the validation is tried on: each required field absent or
\* falsy, each numeric field unparsable, every combination of the exit fields,
\* an exit at price 0, and a pnl and outcome that contradict each other.
Submissions ==
    {OpenBody, ClosedBody}
    \cup {[OpenBody EXCEPT ![f] = Undefined] :
            f \in {"cryptoName", "entryDate", "entryPrice", "positionSize", "reason"}}
    \cup {[OpenBody EXCEPT !.entryPrice = Num(0)],
          [OpenBody EXCEPT !.positionSize = Num(0)],
          [OpenBody EXCEPT !.entryPrice = Str("abc")],
          [OpenBody EXCEPT !.positionSize = Str("abc")],
          [OpenBody EXCEPT !.exitPrice = Str("abc")],
          [OpenBody EXCEPT !.entryDate = Str("soon")]}
    \cup {[OpenBody EXCEPT !.exitDate = d, !.exitPrice = p] :
            d \in {Undefined, Str("2024-02-01")}, p \in {Undefined, Num(150)}}
    \cup {[OpenBody EXCEPT !.exitDate = Str("2024-02-01"), !.exitPrice = Num(0)]}
    \cup {[OpenBody EXCEPT !.pnl = Num(0 - 100), !.outcome = Str("Profit")]}

\* ------------------------------------------------------------- the table

\* The rows of "Trade" in creation order.
TradeRow(id, data, now) ==
    [id |-> id, cryptoName |-> data.cryptoName, entryDate |-> data.entryDate,
     exitDate |-> data.exitDate, entryPrice |-> data.entryPrice,
     exitPrice |-> data.exitPrice, positionSize |-> data.positionSize,
     reason |-> data.reason, notes |-> data.notes, pnl |-> data.pnl,
     outcome |-> data.outcome, userId |-> data.userId,
     createdAt |-> now, updatedAt |-> now]

\* The column types: which values a row may hold.
IsText(v) == v.t = "string"

IsDouble(v) == v.t \in {"number", "NaN"}

IsTimestamp(v) == v.t = "Date"

RowAccepted(data) ==
    /\ IsText(data.cryptoName)
    /\ IsTimestamp(data.entryDate)
    /\ data.exitDate = Null \/ IsTimestamp(data.exitDate)
    /\ IsDouble(data.entryPrice)
    /\ data.exitPrice = Null \/ IsDouble(data.exitPrice)
    /\ IsDouble(data.positionSize)
    /\ IsText(data.reason)
    /\ data.notes = Null \/ IsText(data.notes)
    /\ IsDouble(data.pnl)
    /\ IsText(data.outcome)
    /\ data.userId \in Users

\* CURRENT_TIMESTAMP at millisecond precision: never earlier than the last
\* row's stamp, and equal to it when two rows are created in one millisecond.
Stamps(st) ==
    IF st = <<>> THEN {1}
    ELSE {st[Len(st)].createdAt, st[Len(st)].createdAt + 1}

\* create that writes over the newest row instead of adding one.
createOverwriting(st, data, now) ==
    IF st = <<>> THEN Append(st, TradeRow(1, data, now))
    ELSE [st EXCEPT ![Len(st)] = TradeRow(Len(st), data, now)]

\* create whose row never reaches the table.
createNothing(st, data, now) == st

\* prisma.trade.create: the table with the new row appended.
create(st, data, now) == Append(st, TradeRow(Len(st) + 1, data, now))

\* findFirst with the owner left out of the where clause.
findFirstAnyOwner(st, id, userId) == SelectSeq(st, LAMBDA t : t.id = id)

\* prisma.trade.findFirst({ where: { id, userId } }): <<row>> or <<>> for null.
findFirst(st, id, userId) ==
    SelectSeq(st, LAMBDA t : t.id = id /\ t.userId = userId)

\* The orders in which rows may come back under orderBy createdAt desc.
Descending(rows) ==
    \A i \in 1..Len(rows) - 1 : rows[i].createdAt >= rows[i + 1].createdAt

Orderings(rows) ==
    {[i \in 1..Len(rows) |-> rows[p[i]]] :
        p \in {q \in [1..Len(rows) -> 1..Len(rows)] :
                 \A i, j \in 1..Len(rows) : q[i] = q[j] => i = j}}

\* findMany with orderBy createdAt 'asc'.
findManyAscending(st, userId) ==
    {rows \in Orderings(SelectSeq(st, LAMBDA t : t.userId = userId)) :
        \A i \in 1..Len(rows) - 1 : rows[i].createdAt <= rows[i + 1].createdAt}

\* prisma.trade.findMany({ where: { userId }, orderBy: { createdAt: 'desc' } }):
\* every answer the database may give (rows of equal stamp in either order).
findMany(st, userId) ==
    {rows \in Orderings(SelectSeq(st, LAMBDA t : t.userId = userId)) :
        Descending(rows)}

\* ------------------------------------------------------------ responses

\* NextResponse.json(body, { status }) together with what the handler did to
\* get there: the table it leaves and the calls it made, in order.
Reply(status, kind, body, error, st, trace) ==
    [status |-> status, kind |-> kind, body |-> body, error |-> error,
     store |-> st, ops |-> trace]

Unauthorized(st, trace) == Reply(401, "error", <<>>, "Unauthorized", st, trace)

\* The catch block answering with the caught error's own message.
InternalServerErrorLeaking(st, trace) ==
    Reply(500, "error", <<>>, "error.message", st, trace)

InternalServerError(st, trace) ==
    Reply(500, "error", <<>>, "Internal server error", st, trace)

\* The handlers with the identity check left out.
AuthenticatedAlways(user) == TRUE

\* if (!user) return 401: the guard at the head of every handler.
Authenticated(user) == user # NoUser

\* The fields an error message names. None of the handlers' messages names one.
ErrorFields(error) ==
    CASE error = "Unauthorized" -> {}
      [] error = "Missing required fields" -> {}
      [] error = "Trade not found" -> {}
      [] error = "Internal server error" -> {}
      [] OTHER -> {}

\* ------------------------------------------------------- GET /api/trades

GET_trades(user, fail, st) ==
    IF fail = "currentUser" THEN {InternalServerError(st, <<"currentUser">>)}
    ELSE IF ~Authenticated(user) THEN {Unauthorized(st, <<"currentUser">>)}
    ELSE IF fail = "prisma"
    THEN {InternalServerError(st, <<"currentUser", "findMany">>)}
    ELSE {Reply(200, "trades", rows, "", st, <<"currentUser", "findMany">>) :
            rows \in findMany(st, user)}

\* ------------------------------------------------------ POST /api/trades

\* if (!body.cryptoName || !body.entryDate || !body.entryPrice || !body.positionSize)
MissingRequired(body) ==
    \/ ~Truthy(body.cryptoName)
    \/ ~Truthy(body.entryDate)
    \/ ~Truthy(body.entryPrice)
    \/ ~Truthy(body.positionSize)

\* The create data with the body spread over it, so that a userId in the body
\* replaces the identified user.
TradeDataTrustingBody(user, body) ==
    [cryptoName |-> body.cryptoName,
     entryDate |-> NewDate(body.entryDate),
     exitDate |-> IF Truthy(body.exitDate) THEN NewDate(body.exitDate) ELSE Null,
     entryPrice |-> parseFloat(body.entryPrice),
     exitPrice |-> IF Truthy(body.exitPrice) THEN parseFloat(body.exitPrice) ELSE Null,
     positionSize |-> parseFloat(body.positionSize),
     reason |-> Or(body.reason, Str("")),
     notes |-> Or(body.notes, Null),
     pnl |-> Or(body.pnl, Num(0)),
     outcome |-> Or(body.outcome, Str("Breakeven")),
     userId |-> IF body.userId.t = "string" THEN body.userId.s ELSE user]

\* The data object handed to prisma.trade.create.
TradeData(user, body) ==
    [cryptoName |-> body.cryptoName,
     entryDate |-> NewDate(body.entryDate),
     exitDate |-> IF Truthy(body.exitDate) THEN NewDate(body.exitDate) ELSE Null,
     entryPrice |-> parseFloat(body.entryPrice),
     exitPrice |-> IF Truthy(body.exitPrice) THEN parseFloat(body.exitPrice) ELSE Null,
     positionSize |-> parseFloat(body.positionSize),
     reason |-> Or(body.reason, Str("")),
     notes |-> Or(body.notes, Null),
     pnl |-> Or(body.pnl, Num(0)),
     outcome |-> Or(body.outcome, Str("Breakeven")),
     userId |-> user]

\* POST that validates only after it has created the row.
POST_tradesCreatingFirst(user, body, fail, st, now) ==
    IF fail = "currentUser" THEN InternalServerError(st, <<"currentUser">>)
    ELSE IF ~Authenticated(user) THEN Unauthorized(st, <<"currentUser">>)
    ELSE IF fail \in {"request.json", "body"}
    THEN InternalServerError(st, <<"currentUser", "request.json">>)
    ELSE IF MissingRequired(body)
    THEN Reply(400, "error", <<>>, "Missing required fields",
               IF RowAccepted(TradeData(user, body))
               THEN create(st, TradeData(user, body), now) ELSE st,
               <<"currentUser", "request.json", "create">>)
    ELSE IF fail = "prisma" \/ ~RowAccepted(TradeData(user, body))
    THEN InternalServerError(st, <<"currentUser", "request.json", "create">>)
    ELSE Reply(201, "trade",
               <<TradeRow(Len(st) + 1, TradeData(user, body), now)>>, "",
               create(st, TradeData(user, body), now),
               <<"currentUser", "request.json", "create">>)

POST_trades(user, body, fail, st, now) ==
    IF fail = "currentUser" THEN InternalServerError(st, <<"currentUser">>)
    ELSE IF ~Authenticated(user) THEN Unauthorized(st, <<"currentUser">>)
    ELSE IF fail \in {"request.json", "body"}
    THEN InternalServerError(st, <<"currentUser", "request.json">>)
    ELSE IF MissingRequired(body)
    THEN Reply(400, "error", <<>>, "Missing required fields", st,
               <<"currentUser", "request.json">>)
    ELSE IF fail = "prisma" \/ ~RowAccepted(TradeData(user, body))
    THEN InternalServerError(st, <<"currentUser", "request.json", "create">>)
    ELSE Reply(201, "trade",
               <<TradeRow(Len(st) + 1, TradeData(user, body), now)>>, "",
               create(st, TradeData(user, body), now),
               <<"currentUser", "request.json", "create">>)

\* -------------------------------------------------- GET /api/trades/{id}

GET_trade(user, id, fail, st) ==
    IF fail = "currentUser" THEN InternalServerError(st, <<"currentUser">>)
    ELSE IF ~Authenticated(user) THEN Unauthorized(st, <<"currentUser">>)
    ELSE IF fail = "prisma"
    THEN InternalServerError(st, <<"currentUser", "findFirst">>)
    ELSE IF findFirst(st, id, user) = <<>>
    THEN Reply(404, "error", <<>>, "Trade not found", st,
               <<"currentUser", "findFirst">>)
    ELSE Reply(200, "trade", <<findFirst(st, id, user)[1]>>, "", st,
               <<"currentUser", "findFirst">>)

\* ---------------------------------------------------- the creation form

\* const exitPrice = values.exitPrice ? parseFloat(values.exitPrice) : null
FormExitPrice(values) ==
    IF Truthy(values.exitPrice) THEN parseFloat(values.exitPrice) ELSE Null

\* An outcome that reads a negative pnl as no move.
OutcomeOfNoLoss(pnl) == IF Gt0(pnl) THEN "Profit" ELSE "Breakeven"

\* pnl > 0 ? "Profit" : pnl < 0 ? "Loss" : "Breakeven"
OutcomeOf(pnl) ==
    IF Gt0(pnl) THEN "Profit" ELSE IF Lt0(pnl) THEN "Loss" ELSE "Breakeven"

\* The fixed calculation without its `exitPrice && entryPrice` guard.
FixedPnlUnguarded(entryPrice, exitPrice) == Sub(exitPrice, entryPrice)

\* The form without a position size: pnl = exitPrice - entryPrice, taken only
\* when `exitPrice && entryPrice` is truthy; positionSize is sent as 1.
FixedPnl(entryPrice, exitPrice) ==
    IF Truthy(And(exitPrice, entryPrice)) THEN Sub(exitPrice, entryPrice)
    ELSE Num(0)

onSubmitFixed(values) ==
    LET entryPrice == parseFloat(values.entryPrice)
        exitPrice == FormExitPrice(values)
        pnl == FixedPnl(entryPrice, exitPrice)
    IN  [entryPrice |-> entryPrice, exitPrice |-> exitPrice,
         positionSize |-> Num(1), pnl |-> pnl, outcome |-> OutcomeOf(pnl)]

\* The sized calculation without its `exitPrice && entryPrice` guard.
SizedPnlUnguarded(entryPrice, exitPrice, positionSize) ==
    Mul(Sub(exitPrice, entryPrice), positionSize)

\* The form with a position size:
\* pnl = exitPrice && entryPrice ? (exitPrice - entryPrice) * positionSize : 0
SizedPnl(entryPrice, exitPrice, positionSize) ==
    IF Truthy(And(exitPrice, entryPrice))
    THEN Mul(Sub(exitPrice, entryPrice), positionSize)
    ELSE Num(0)

onSubmitSized(values) ==
    LET entryPrice == parseFloat(values.entryPrice)
        exitPrice == FormExitPrice(values)
        positionSize == parseFloat(values.positionSize)
        pnl == SizedPnl(entryPrice, exitPrice, positionSize)
    IN  [entryPrice |-> entryPrice, exitPrice |-> exitPrice,
         positionSize |-> positionSize, pnl |-> pnl, outcome |-> OutcomeOf(pnl)]

\* What the user may have typed when onSubmit runs: the schema wants a
\* non-empty entryPrice and positionSize, and lets exitPrice be left out.
PriceTexts == {Str(s) : s \in {"-100", "0", "50", "100", "150", "abc"}}

ExitPriceTexts == PriceTexts \cup {Undefined, Str("")}

SizeTexts == {Str(s) : s \in {"-1", "0", "1", "2", "5", "abc"}}

NoNewTrade ==
    [entryPrice |-> Undefined, exitPrice |-> Undefined, positionSize |-> Undefined,
     pnl |-> Undefined, outcome |-> ""]

FormValues(variant, entryPrice, exitPrice, positionSize) ==
    [variant |-> variant, entryPrice |-> entryPrice, exitPrice |-> exitPrice,
     positionSize |-> positionSize]

IdleForm ==
    [pc |-> "idle", values |-> FormValues("fixed", Str(""), Undefined, Undefined),
     newTrade |-> NoNewTrade]

\* ---------------------------------------------------------------- state

NoBody == [f \in Fields |-> Undefined]

NoRequest ==
    [handler |-> "none", user |-> NoUser, id |-> 0, body |-> NoBody,
     fail |-> "none", before |-> <<>>]

NoResponse == [status |-> 0, kind |-> "none", body |-> <<>>, error |-> ""]

\* React state before a component is mounted or a handler has run.
IdleSubmit ==
    [pc |-> "idle", isSubmitting |-> FALSE, posts |-> 0, body |-> NoBody,
     settled |-> "", error |-> "", toast |-> "", pushed |-> ""]

NoList ==
    [pc |-> "unmounted", trades |-> <<>>, loading |-> TRUE, error |-> "",
     fetches |-> 0, status |-> 0, settled |-> ""]

NoDetail ==
    [pc |-> "unmounted", id |-> 0, trade |-> <<>>, loading |-> TRUE,
     error |-> "", fetches |-> 0, status |-> 0, settled |-> ""]

NoPages ==
    /\ page = "none"
    /\ submit = IdleSubmit
    /\ list = NoList
    /\ detail = NoDetail

Init ==
    /\ store = <<>>
    /\ req = NoRequest
    /\ resp = NoResponse
    /\ ops = <<>>
    /\ form = IdleForm
    /\ NoPages

\* A handler ran to its response.
Served(handler, user, id, body, fail, r) ==
    /\ req' = [handler |-> handler, user |-> user, id |-> id, body |-> body,
               fail |-> fail, before |-> store]
    /\ resp' = [status |-> r.status, kind |-> r.kind, body |-> r.body,
                error |-> r.error]
    /\ store' = r.store
    /\ ops' = r.ops

\* A request of some client other than the pages ran to its response.
Answered(handler, user, id, body, fail, r) ==
    /\ Served(handler, user, id, body, fail, r)
    /\ UNCHANGED <<form, page, submit, list, detail>>

GetTrades ==
    \E user \in Identities, fail \in Failures \ {"request.json", "body"} :
        \E r \in GET_trades(user, fail, store) :
            Answered("GET /api/trades", user, 0, NoBody, fail, r)

\* A POST by one of `users` with a body of `pool`, while the table holds fewer
\* than `cap` rows. A failure is injected into the plain body only: where it
\* strikes does not depend on the body.
PostBy(users, pool, cap) ==
    \E user \in users, body \in pool, fail \in Failures :
        \E now \in Stamps(store) :
            LET r == POST_trades(user, body, fail, store, now)
            IN  /\ fail # "none" => body = OpenBody
                /\ Len(r.store) <= cap
                /\ Answered("POST /api/trades", user, 0, body, fail, r)

PostTrades == PostBy(Identities, Bodies, MaxTrades)

GetTrade ==
    \E user \in Identities, id \in 1..MaxTrades + 1,
       fail \in Failures \ {"request.json", "body"} :
        /\ fail # "none" => id = 1
        /\ Answered("GET /api/trades/{id}", user, id, NoBody, fail,
                    GET_trade(user, id, fail, store))

Next == GetTrades \/ PostTrades \/ GetTrade

Spec == Init /\ [][Next]_vars

\* One client sending every kind of submission, and requests without identity.
SubmitTrade == PostBy({"u1", NoUser}, Submissions, MaxSubmitted)

SpecPost == Init /\ [][SubmitTrade]_vars

\* The form's calculation on its own: the values are typed, then onSubmit
\* derives the numbers of the trade it will send.
InitForm ==
    /\ store = <<>>
    /\ req = NoRequest
    /\ resp = NoResponse
    /\ ops = <<>>
    /\ NoPages
    /\ \E e \in PriceTexts, x \in ExitPriceTexts, z \in SizeTexts :
        \/ form = [pc |-> "filled", values |-> FormValues("sized", e, x, z),
                   newTrade |-> NoNewTrade]
        \/ /\ z = Str("1")
           /\ form = [pc |-> "filled",
                      values |-> FormValues("fixed", e, x, Undefined),
                      newTrade |-> NoNewTrade]

Calculate ==
    /\ form.pc = "filled"
    /\ form' = [form EXCEPT
                  !.pc = "calculated",
                  !.newTrade = IF form.values.variant = "fixed"
                               THEN onSubmitFixed(form.values)
                               ELSE onSubmitSized(form.values)]
    /\ UNCHANGED <<store, req, resp, ops, page, submit, list, detail>>

SpecPnl == InitForm /\ [][Calculate]_vars

\* ------------------------------------------------------------ the pages

\* The session of the browser: signed in as u1, or signed out.
Sessions == {"u1", NoUser}

\* What a fetch may end with besides a response of the handler: the fetch
\* promise rejects, or response.json() throws on a body that is no JSON.
Rejections == {"Failed to fetch", "Unexpected token"}

\* useCryptoList: the options of the cryptocurrency combobox.
CryptoOptions ==
    {[value |-> "bitcoin", label |-> "Bitcoin"],
     [value |-> "ethereum", label |-> "Ethereum"]}

\* The values of a submitted form.
Typed(variant, cryptoId, entryPrice, exitPrice, exitDate) ==
    [variant |-> variant, cryptoId |-> cryptoId, entryDate |-> "2024-01-01",
     exitDate |-> exitDate, entryPrice |-> entryPrice, exitPrice |-> exitPrice,
     positionSize |-> IF variant = "sized" THEN Str("2") ELSE Undefined,
     reason |-> Str("breakout"), notes |-> Str("")]

\* The values a failure is injected under: where a failure strikes does not
\* depend on what was typed.
PlainValues == Typed("sized", "bitcoin", Str("100"), Undefined, Undefined)

TypedValues ==
    {PlainValues,
     Typed("sized", "bitcoin", Str("100"), Str("150"), Str("2024-02-01")),
     Typed("fixed", "bitcoin", Str("100"), Str("150"), Str("2024-02-01")),
     Typed("fixed", "bitcoin", Str("0"), Undefined, Undefined),
     Typed("sized", "unlisted", Str("100"), Undefined, Undefined),
     Typed("fixed", "ethereum", Str("100"), Undefined, Undefined)}

\* A lookup that falls back to the whole list when nothing matches.
SelectedCryptoOrAny(values) ==
    IF \E o \in CryptoOptions : o.value = values.cryptoId
    THEN {o \in CryptoOptions : o.value = values.cryptoId}
    ELSE CryptoOptions

\* cryptoOptions.find(crypto => crypto.value === values.cryptoId)
SelectedCrypto(values) == {o \in CryptoOptions : o.value = values.cryptoId}

\* JSON.stringify writes NaN as null.
JSONNumber(v) == IF v.t = "NaN" THEN Null ELSE v

\* JSON.stringify(newTrade) as request.json() reads it back.
NewTradeBody(values, label, t) ==
    [cryptoName |-> Str(label),
     entryDate |-> Str(values.entryDate),
     exitDate |-> IF Truthy(values.exitDate) THEN values.exitDate ELSE Null,
     entryPrice |-> JSONNumber(t.entryPrice),
     exitPrice |-> JSONNumber(t.exitPrice),
     positionSize |-> JSONNumber(t.positionSize),
     reason |-> values.reason,
     notes |-> IF values.variant = "fixed" THEN Or(values.notes, Null)
               ELSE values.notes,
     pnl |-> JSONNumber(t.pnl),
     outcome |-> Str(t.outcome),
     userId |-> Undefined,
     id |-> Undefined]

\* A catch block that sends the request again.
CaughtRetrying(s, message) ==
    IF s.posts = 0 THEN [s EXCEPT !.pc = "caught", !.error = message]
    ELSE [s EXCEPT !.pc = "fetching", !.posts = @ + 1, !.error = message]

\* The catch block is entered with an error.
Caught(s, message) == [s EXCEPT !.pc = "caught", !.error = message]

\* The user opens or reloads a page; no fetch of the page left is in flight.
\* The home page and the detail page start their fetch as they mount.
Visit ==
    /\ submit.pc # "fetching" /\ list.pc # "fetching" /\ detail.pc # "fetching"
    /\ \/ /\ page' = "new"
          /\ list' = NoList
          /\ detail' = NoDetail
       \/ /\ page' = "list"
          /\ list' = [NoList EXCEPT !.pc = "fetching", !.fetches = 1]
          /\ detail' = NoDetail
       \/ \E id \in 1..MaxCreated + 1 :
          /\ page' = "detail"
          /\ detail' = [NoDetail EXCEPT !.pc = "fetching", !.id = id,
                                        !.fetches = 1]
          /\ list' = NoList
    /\ form' = IdleForm
    /\ submit' = IdleSubmit
    /\ UNCHANGED <<store, req, resp, ops>>

\* onSubmit up to its first await: the calculation, the lookup of the
\* cryptocurrency, and the fetch of POST /api/trades.
Submitting(values) ==
    LET t == IF values.variant = "fixed" THEN onSubmitFixed(values)
             ELSE onSubmitSized(values)
        started == [IdleSubmit EXCEPT !.isSubmitting = TRUE]
    IN  /\ form' = [pc |-> "calculated", values |-> values, newTrade |-> t]
        /\ submit' =
             IF SelectedCrypto(values) = {}
             THEN Caught(started, "Selected cryptocurrency not found")
             ELSE [started EXCEPT
                     !.pc = "fetching",
                     !.posts = 1,
                     !.body = NewTradeBody(
                                values,
                                (CHOOSE o \in SelectedCrypto(values) : TRUE).label,
                                t)]
        /\ UNCHANGED <<store, req, resp, ops, page, list, detail>>

\* The user submits the form with some values.
OnSubmit ==
    /\ page = "new"
    /\ submit.pc = "idle"
    /\ \E values \in TypedValues : Submitting(values)

\* The fetch of the form settles. The request may never reach the handler
\* (the fetch rejects); or the handler answers and the answer is read; or the
\* handler answers and the answer is lost on the way or its body cannot be
\* read (fetch or response.json() rejects although the handler ran).
\* submit.settled records which: "read", or the message of the rejection.
PostSettled ==
    /\ submit.pc = "fetching"
    /\ \/ /\ \E message \in Rejections :
                submit' = Caught([submit EXCEPT !.settled = message], message)
          /\ UNCHANGED <<store, req, resp, ops>>
       \/ \E user \in Sessions, fail \in Failures, now \in Stamps(store),
             read \in {"read"} \cup Rejections :
            LET r == POST_trades(user, submit.body, fail, store, now)
                s == [submit EXCEPT !.settled = read]
            IN  /\ fail # "none" => form.values = PlainValues
                /\ Len(r.store) <= MaxCreated
                /\ Served("POST /api/trades", user, 0, submit.body, fail, r)
                /\ submit' =
                     IF read # "read" THEN Caught(s, read)
                     ELSE IF r.status = 201 THEN [s EXCEPT !.pc = "created"]
                     ELSE Caught(s, IF r.error # "" THEN r.error
                                    ELSE "Failed to create trade")
    /\ UNCHANGED <<form, page, list, detail>>

\* setIsSubmitting(false) as the last statement of the try block instead of
\* in finally: a caught error leaves the flag set.
FinallyInTryOnly ==
    /\ submit.pc \in {"created", "caught"}
    /\ IF submit.pc = "created"
       THEN /\ form' = IdleForm
            /\ submit' = [submit EXCEPT !.pc = "idle", !.isSubmitting = FALSE,
                                       !.toast = "Trade created successfully!",
                                       !.pushed = "/"]
       ELSE /\ form' = form
            /\ submit' = [submit EXCEPT !.pc = "idle", !.toast = submit.error]
    /\ UNCHANGED <<store, req, resp, ops, page, list, detail>>

\* form.reset() in the finally block: the values are cleared after a failure
\* too.
FinallyResetting ==
    /\ submit.pc \in {"created", "caught"}
    /\ form' = IdleForm
    /\ IF submit.pc = "created"
       THEN submit' = [submit EXCEPT !.pc = "idle", !.isSubmitting = FALSE,
                                     !.toast = "Trade created successfully!",
                                     !.pushed = "/"]
       ELSE submit' = [submit EXCEPT !.pc = "idle", !.isSubmitting = FALSE,
                                     !.toast = submit.error]
    /\ UNCHANGED <<store, req, resp, ops, page, list, detail>>

\* The rest of onSubmit: toast.success, form.reset() and router.push('/'), or
\* the catch block's toast.error; then finally setIsSubmitting(false).
Finally ==
    /\ submit.pc \in {"created", "caught"}
    /\ IF submit.pc = "created"
       THEN /\ form' = IdleForm
            /\ submit' = [submit EXCEPT !.pc = "idle", !.isSubmitting = FALSE,
                                       !.toast = "Trade created successfully!",
                                       !.pushed = "/"]
       ELSE /\ form' = form
            /\ submit' = [submit EXCEPT !.pc = "idle", !.isSubmitting = FALSE,
                                       !.toast = submit.error]
    /\ UNCHANGED <<store, req, resp, ops, page, list, detail>>

\* The navigation that router.push('/') asked for: the home page mounts.
RouterPush ==
    /\ page = "new"
    /\ submit.pushed = "/"
    /\ submit.pc = "idle"
    /\ page' = "list"
    /\ list' = [NoList EXCEPT !.pc = "fetching", !.fetches = 1]
    /\ form' = IdleForm
    /\ submit' = IdleSubmit
    /\ UNCHANGED <<store, req, resp, ops, detail>>

\* NextResponse.json(rows) as response.json() reads it back: a Date comes
\* back as its ISO string, NaN as null.
JSONValue(v) ==
    CASE v.t = "Date" -> Str(v.s)
      [] v.t = "NaN" -> Null
      [] OTHER -> v

JSONRow(row) ==
    [f \in DOMAIN row |->
        IF f \in {"id", "userId", "createdAt", "updatedAt"} THEN row[f]
        ELSE JSONValue(row[f])]

JSONRows(rows) == [i \in 1..Len(rows) |-> JSONRow(rows[i])]

\* A loader whose fetch has ended: finally setLoading(false).
Loaded(s, status, settled) ==
    [s EXCEPT !.pc = "done", !.loading = FALSE, !.status = status,
              !.settled = settled]

\* A loader that leaves loading set when the fetch failed.
FailedKeepsLoading(s, status, settled, message) ==
    [s EXCEPT !.pc = "done", !.status = status, !.settled = settled,
              !.error = message]

\* The catch block of a loader: setError(err.message).
Failed(s, status, settled, message) ==
    [Loaded(s, status, settled) EXCEPT !.error = message]

\* useTrades: the fetch of GET /api/trades settles. As for the form, the
\* fetch may reject before or after the handler ran; response.json() is
\* called, and may reject, for an ok response only.
ListSettled ==
    /\ list.pc = "fetching"
    /\ \/ /\ \E message \in Rejections \ {"Unexpected token"} :
                list' = Failed(list, 0, message, message)
          /\ UNCHANGED <<store, req, resp, ops>>
       \/ \E user \in Sessions, fail \in Failures \ {"request.json", "body"},
             read \in {"read"} \cup Rejections :
            \E r \in GET_trades(user, fail, store) :
                /\ read = "Unexpected token" => r.status = 200
                /\ Served("GET /api/trades", user, 0, NoBody, fail, r)
                /\ list' =
                     IF read = "Failed to fetch" THEN Failed(list, 0, read, read)
                     ELSE IF r.status # 200
                     THEN Failed(list, r.status, read, "Failed to fetch trades")
                     ELSE IF read # "read" THEN Failed(list, r.status, read, read)
                     ELSE [Loaded(list, r.status, read) EXCEPT
                             !.trades = JSONRows(r.body)]
    /\ UNCHANGED <<form, page, submit, detail>>

\* notFound(): throws the error that stands for a 404 page.
notFound == "NEXT_HTTP_ERROR_FALLBACK;404"

\* fetchTrade: the fetch of GET /api/trades/{id} settles. notFound() throws
\* inside the try block, so the throw lands in fetchTrade's own catch block.
DetailSettled ==
    /\ detail.pc = "fetching"
    /\ \/ /\ \E message \in Rejections \ {"Unexpected token"} :
                detail' = Failed(detail, 0, message, message)
          /\ UNCHANGED <<store, req, resp, ops>>
       \/ \E user \in Sessions, fail \in Failures \ {"request.json", "body"},
             read \in {"read"} \cup Rejections :
            LET r == GET_trade(user, detail.id, fail, store)
            IN  /\ read = "Unexpected token" => r.status = 200
                /\ Served("GET /api/trades/{id}", user, detail.id, NoBody, fail, r)
                /\ detail' =
                     IF read = "Failed to fetch"
                     THEN Failed(detail, 0, read, read)
                     ELSE IF r.status = 404
                     THEN Failed(detail, r.status, read, notFound)
                     ELSE IF r.status # 200
                     THEN Failed(detail, r.status, read, "Failed to fetch trade")
                     ELSE IF read # "read"
                     THEN Failed(detail, r.status, read, read)
                     ELSE [Loaded(detail, r.status, read) EXCEPT
                             !.trade = JSONRows(r.body)]
    /\ UNCHANGED <<form, page, submit, list>>

NextClient ==
    \/ Visit
    \/ OnSubmit
    \/ PostSettled
    \/ Finally
    \/ RouterPush
    \/ ListSettled
    \/ DetailSettled

SpecClient == Init /\ [][NextClient]_vars

\* The promise of a fetch settles, and the continuation of an async function
\* runs once the promise it awaits has settled.
FairClient ==
    /\ SpecClient
    /\ WF_vars(PostSettled)
    /\ WF_vars(Finally)
    /\ WF_vars(ListSettled)
    /\ WF_vars(DetailSettled)

\* One submit of the form on its own, over every numeric input: the values
\* are typed, onSubmit sends them, the answer is handled.
TypedSized(entryPrice, exitPrice, positionSize) ==
    [Typed("sized", "bitcoin", entryPrice, exitPrice,
           IF exitPrice = Undefined THEN Undefined ELSE Str("2024-02-01"))
        EXCEPT !.positionSize = positionSize]

NumberTexts == {v \in PriceTexts \cup SizeTexts : parseFloat(v).t = "number"}

FilledValues ==
    {TypedSized(e, x, z) :
        e \in PriceTexts \cap NumberTexts,
        x \in ExitPriceTexts \cap (NumberTexts \cup {Undefined, Str("")}),
        z \in SizeTexts \cap NumberTexts}
    \cup
    {Typed("fixed", "bitcoin", e, x,
           IF x = Undefined THEN Undefined ELSE Str("2024-02-01")) :
        e \in PriceTexts \cap NumberTexts,
        x \in ExitPriceTexts \cap (NumberTexts \cup {Undefined, Str("")})}
    \cup
    {Typed("sized", "unlisted", Str("100"), Undefined, Undefined),
     Typed("fixed", "unlisted", Str("100"), Undefined, Undefined)}

InitFilled ==
    /\ store = <<>>
    /\ req = NoRequest
    /\ resp = NoResponse
    /\ ops = <<>>
    /\ page = "new"
    /\ submit = IdleSubmit
    /\ list = NoList
    /\ detail = NoDetail
    /\ \E values \in FilledValues :
        form = [pc |-> "filled", values |-> values, newTrade |-> NoNewTrade]

SubmitFilled ==
    /\ page = "new"
    /\ submit.pc = "idle"
    /\ form.pc = "filled"
    /\ Submitting(form.values)

NextSubmit ==
    \/ SubmitFilled
    \/ PostSettled
    \/ Finally

SpecSubmit == InitFilled /\ [][NextSubmit]_vars

\* The promise of fetch settles, and the continuation of an async function
\* runs once the promise it awaits has settled.
FairSubmit == SpecSubmit /\ WF_vars(PostSettled) /\ WF_vars(Finally)

\* ------------------------------------------------------------ properties

Rows(st) == {st[i] : i \in 1..Len(st)}

Sign(n) == IF n > 0 THEN 1 ELSE IF n < 0 THEN 0 - 1 ELSE 0

IsPost == req.handler = "POST /api/trades"

\* A POST of an identified user in which nothing threw.
IsPlainPost == IsPost /\ req.user \in Users /\ req.fail = "none"

RequiredFields == {"cryptoName", "entryDate", "entryPrice", "positionSize", "reason"}

NumericFields == {"entryPrice", "exitPrice", "positionSize"}

\* The PnL rule of the specification on a row's prices and size.
RulePnl(row) ==
    IF row.exitPrice = Null THEN Num(0)
    ELSE Mul(Sub(row.exitPrice, row.entryPrice), row.positionSize)

\* C1: every stored trade has outcome Profit iff pnl > 0, Loss iff pnl < 0,
\* and Breakeven iff pnl = 0 or its exit data is absent.
C1_OutcomeMatchesPnl ==
    \A t \in Rows(store) :
        /\ t.outcome = Str("Profit") <=> Gt0(t.pnl)
        /\ t.outcome = Str("Loss") <=> Lt0(t.pnl)
        /\ t.outcome = Str("Breakeven") <=>
              (t.pnl = Num(0) \/ t.exitPrice = Null \/ t.exitDate = Null)

\* C2: GET /api/trades/{id} by user u answers with a trade only if the trade is
\* a stored row with the requested id and owner u; when no such row exists the
\* answer carries no trade, and is 404 whenever the lookup itself succeeded.
C2_GetTradeScopedToOwner ==
    (req.handler = "GET /api/trades/{id}" /\ req.user \in Users) =>
        /\ resp.kind = "trade" =>
              /\ Len(resp.body) = 1
              /\ resp.body[1].id = req.id
              /\ resp.body[1].userId = req.user
              /\ resp.body[1] \in Rows(store)
        /\ (~ \E t \in Rows(store) : t.id = req.id /\ t.userId = req.user) =>
              /\ resp.kind = "error"
              /\ resp.body = <<>>
              /\ req.fail = "none" => resp.status = 404

\* A user asked for a trade that exists and belongs to the other user.
C2_Witness ==
    /\ req.handler = "GET /api/trades/{id}"
    /\ req.user = "u1"
    /\ req.fail = "none"
    /\ \E t \in Rows(store) : t.id = req.id /\ t.userId = "u2"
    /\ \E t \in Rows(store) : t.userId = "u1"
    /\ resp.status = 404

\* C3: GET /api/trades by user u answers 200 with exactly the stored rows whose
\* userId is u, each once, with createdAt never increasing down the list.
C3_ListIsOwnersRowsNewestFirst ==
    (req.handler = "GET /api/trades" /\ req.user \in Users /\ req.fail = "none") =>
        /\ resp.status = 200
        /\ \A t \in Rows(store) : t.userId = req.user <=> t \in Rows(resp.body)
        /\ Rows(resp.body) \subseteq Rows(store)
        /\ Len(resp.body) = Cardinality({t \in Rows(store) : t.userId = req.user})
        /\ \A i \in 1..Len(resp.body) - 1 :
              resp.body[i].createdAt >= resp.body[i + 1].createdAt

\* A list of two rows created at different times, the later one first, while
\* the table also holds a row of the other user.
C3_Witness ==
    /\ req.handler = "GET /api/trades"
    /\ req.user = "u1"
    /\ Len(resp.body) = 2
    /\ resp.body[1].createdAt > resp.body[2].createdAt
    /\ resp.body[1].id > resp.body[2].id
    /\ \E t \in Rows(store) : t.userId = "u2"

\* C4: when currentUser() gives no user, each handler answers 401 having made
\* no call but currentUser(): no body read, no query, the table untouched.
C4_NoIdentityNoAccess ==
    (req.handler # "none" /\ req.user = NoUser /\ req.fail # "currentUser") =>
        /\ resp.status = 401
        /\ ops = <<"currentUser">>
        /\ store = req.before

\* A POST without identity, carrying a valid body, against a table with rows.
C4_Witness ==
    /\ IsPost
    /\ req.user = NoUser
    /\ req.body = ClosedBody
    /\ store # <<>>
    /\ resp.status = 401

\* C5: for integer entryPrice, exitPrice and positionSize, the sized form yields
\* pnl = (exitPrice - entryPrice) * positionSize and the outcome of its sign.
C5_SizedPnlFormula ==
    (/\ form.pc = "calculated"
     /\ form.values.variant = "sized"
     /\ form.values.entryPrice.s \in DOMAIN Numerals
     /\ form.values.exitPrice.s \in DOMAIN Numerals
     /\ form.values.positionSize.s \in DOMAIN Numerals) =>
        LET e == Numerals[form.values.entryPrice.s]
            x == Numerals[form.values.exitPrice.s]
            z == Numerals[form.values.positionSize.s]
        IN  /\ form.newTrade.pnl = Num((x - e) * z)
            /\ form.newTrade.outcome =
                  (IF (x - e) * z > 0 THEN "Profit"
                   ELSE IF (x - e) * z < 0 THEN "Loss" ELSE "Breakeven")

\* C6: with no exitPrice typed, both forms yield pnl = 0 and outcome Breakeven.
C6_NoExitGivesBreakeven ==
    (form.pc = "calculated" /\ form.values.exitPrice \in {Undefined, Str("")}) =>
        /\ form.newTrade.pnl = Num(0)
        /\ form.newTrade.outcome = "Breakeven"
        /\ form.newTrade.exitPrice = Null

\* The sized form calculated an open position of entry 100 and size 2.
C6_Witness ==
    /\ form.pc = "calculated"
    /\ form.values = FormValues("sized", Str("100"), Undefined, Str("2"))
    /\ form.newTrade.pnl = Num(0)

\* C7: for integer prices and a positive size, the pnl of either form has the
\* sign of exitPrice - entryPrice.
C7_PnlSignFollowsPriceMove ==
    (/\ form.pc = "calculated"
     /\ form.values.entryPrice.s \in DOMAIN Numerals
     /\ form.values.exitPrice.s \in DOMAIN Numerals
     /\ form.newTrade.positionSize.t = "number"
     /\ form.newTrade.positionSize.n > 0) =>
        /\ form.newTrade.pnl.t = "number"
        /\ Sign(form.newTrade.pnl.n) =
              Sign(Numerals[form.values.exitPrice.s]
                   - Numerals[form.values.entryPrice.s])

\* C8: a POST of an identified user whose body lacks a required field is
\* answered 400 with a message naming the field, and stores nothing.
C8_MissingFieldRejected ==
    IsPlainPost =>
        \A f \in RequiredFields :
            req.body[f] = Undefined =>
                /\ resp.status = 400
                /\ f \in ErrorFields(resp.error)
                /\ store = req.before

\* C9: a POST with a numeric field that is present but parses to no number is
\* answered 400, and no stored trade has a not-a-number price or size.
C9_InvalidNumberRejected ==
    /\ \A t \in Rows(store) : \A f \in NumericFields : t[f] # NaN
    /\ IsPlainPost =>
          \A f \in NumericFields :
              (req.body[f] # Undefined /\ parseFloat(req.body[f]) = NaN) =>
                  /\ resp.status = 400
                  /\ f \in ErrorFields(resp.error)

\* C10: a created record has notes null when none were sent, and when neither
\* pnl nor outcome was sent they are the PnL rule's values for its prices and size.
C10_CreatedRecordDefaults ==
    (IsPost /\ resp.status = 201) =>
        /\ req.body.notes = Undefined => resp.body[1].notes = Null
        /\ (req.body.pnl = Undefined /\ req.body.outcome = Undefined) =>
              /\ resp.body[1].pnl = RulePnl(resp.body[1])
              /\ resp.body[1].outcome = Str(OutcomeOf(RulePnl(resp.body[1])))

\* C11: every POST ends with status 201, 400, 401 or 500; it is 201 exactly
\* when the request added one row to the table, and then the body is that row.
C11_PostStatusAndEffect ==
    IsPost =>
        /\ resp.status \in {201, 400, 401, 500}
        /\ resp.status = 201 <=>
              /\ Len(store) = Len(req.before) + 1
              /\ SubSeq(store, 1, Len(req.before)) = req.before
        /\ resp.status # 201 => store = req.before
        /\ resp.status = 201 => resp.body = <<store[Len(store)]>>

\* A POST answered 201 that added a second row to the table.
C11_Witness ==
    /\ IsPost
    /\ resp.status = 201
    /\ Len(req.before) = 1
    /\ Len(store) = 2
    /\ resp.body = <<store[2]>>

\* C12: a POST of an identified user is answered 400 only when a required
\* field is absent or a numeric field parses to no number; a body whose
\* entryPrice or positionSize is 0 is not turned away as missing a field.
C12_ZeroIsNotMissing ==
    (IsPlainPost /\ resp.status = 400) =>
        \/ \E f \in RequiredFields : req.body[f] = Undefined
        \/ \E f \in NumericFields :
              req.body[f] # Undefined /\ parseFloat(req.body[f]) = NaN

\* C13: every stored trade whose exitPrice is absent has pnl = 0.
C13_OpenTradeHasZeroPnl ==
    \A t \in Rows(store) : t.exitPrice = Null => t.pnl = Num(0)

\* C14: every stored trade has exitDate present iff exitPrice is present.
C14_ExitFieldsTogether ==
    \A t \in Rows(store) : t.exitDate = Null <=> t.exitPrice = Null

\* A submission that is valid but for its exit fields, each of which is left
\* out or holds a date, respectively a number.
ValidButForExit(body) ==
    /\ [body EXCEPT !.exitDate = Undefined, !.exitPrice = Undefined] = OpenBody
    /\ body.exitDate = Undefined \/ NewDate(body.exitDate) # InvalidDate
    /\ body.exitPrice = Undefined \/ body.exitPrice.t = "number"

\* C15: whichever of exitDate and exitPrice an otherwise valid submission
\* carries, it is accepted with 201 and the stored record has each exit field
\* present exactly when it was submitted.
C15_ExitFieldsIndependent ==
    (IsPlainPost /\ ValidButForExit(req.body)) =>
        /\ resp.status = 201
        /\ resp.body[1].exitDate # Null <=> req.body.exitDate # Undefined
        /\ resp.body[1].exitPrice # Null <=> req.body.exitPrice # Undefined

\* C16: the table is append-only: no request of any user changes or removes
\* a row that exists, whichever handler serves it.
C16_AppendOnly ==
    [][/\ Len(store') >= Len(store)
       /\ SubSeq(store', 1, Len(store)) = store]_vars

\* With rows of both users in the table, a user asked for the other's row.
C16_Witness ==
    /\ Len(store) = 3
    /\ store[1].userId = "u1"
    /\ store[2].userId = "u2"
    /\ req.handler = "GET /api/trades/{id}"
    /\ req.user = "u2"
    /\ req.id = 1
    /\ req.before = store

\* A collaborator threw while the request was served.
Threw ==
    /\ req.handler # "none"
    /\ \/ req.fail = "currentUser"
       \/ req.user \in Users /\ req.fail # "none"

\* C17: when the identity provider, the body parser or the datastore throws,
\* the handler answers 500 with the fixed body { error: 'Internal server error' }.
C17_FailuresCollapseTo500 ==
    Threw =>
        /\ resp.status = 500
        /\ resp.kind = "error"
        /\ resp.error = "Internal server error"
        /\ resp.body = <<>>
        /\ store = req.before

\* The datastore threw under a lookup by id, with rows in the table.
C17_Witness ==
    /\ req.fail = "prisma"
    /\ req.user = "u1"
    /\ req.handler = "GET /api/trades/{id}"
    /\ store # <<>>
    /\ resp.status = 500

\* C19: the userId of a created trade is the identified user of the request,
\* whatever userId or id the body carries; its id is a fresh one.
C19_OwnerIsCaller ==
    /\ (IsPost /\ resp.status = 201) =>
          /\ resp.body[1].userId = req.user
          /\ store[Len(store)].userId = req.user
          /\ \A t \in Rows(req.before) : t.id # resp.body[1].id
    /\ \A i, j \in 1..Len(store) : store[i].id = store[j].id => i = j

\* User u1 created a trade with a body naming u2 as owner and row 1 as id,
\* while row 1 exists.
C19_Witness ==
    /\ IsPost
    /\ req.user = "u1"
    /\ req.body = ForgedBody
    /\ req.before # <<>>
    /\ resp.status = 201
    /\ resp.body[1].userId = "u1"

\* The numbers of a trade that the two forms are compared on.
SentNumbers(newTrade) ==
    [pnl |-> newTrade.pnl, outcome |-> newTrade.outcome,
     positionSize |-> newTrade.positionSize]

\* C20: with position size 1 the two forms send the same pnl, outcome and
\* positionSize for every entry price and optional exit price.
C20_VariantsAgreeAtSizeOne ==
    form.pc = "calculated" =>
        /\ form.values.variant = "fixed" =>
              SentNumbers(form.newTrade) =
                 SentNumbers(onSubmitSized(
                    [form.values EXCEPT !.positionSize = Str("1")]))
        /\ (form.values.variant = "sized" /\ form.values.positionSize = Str("1")) =>
              SentNumbers(form.newTrade) = SentNumbers(onSubmitFixed(form.values))

\* The sized form calculated a closed position of size 1 with a profit.
C20_Witness ==
    /\ form.pc = "calculated"
    /\ form.values = FormValues("sized", Str("100"), Str("150"), Str("1"))
    /\ form.newTrade.pnl = Num(50)
    /\ form.newTrade.outcome = "Profit"

\* C18: nothing is retried: a submit of the form issues at most one POST, and
\* a page issues at most one fetch of its list or trade, until the user
\* submits again or opens the page again; a POST or fetch goes out only in
\* the step that starts the submit or mounts the page.
C18_NothingRetried ==
    [][/\ submit'.posts <= 1
       /\ list'.fetches <= 1
       /\ detail'.fetches <= 1
       /\ submit'.posts > submit.posts => (submit.pc = "idle" /\ page = "new")
       /\ list'.fetches > list.fetches => list.pc \in {"unmounted", "done"}
       /\ detail'.fetches > detail.fetches => detail.pc \in {"unmounted", "done"}]_vars

\* The handler has finished after a POST that the server turned away with 400.
C18_Witness ==
    /\ page = "new"
    /\ submit.pc = "idle"
    /\ submit.posts = 1
    /\ submit.toast = "Missing required fields"
    /\ resp.status = 400
    /\ ~submit.isSubmitting

\* C21: every body the creation form sends for numeric inputs carries a
\* numeric pnl and the outcome of its sign (Profit iff pnl > 0, Loss iff
\* pnl < 0, Breakeven iff pnl = 0), and a row that POST creates from it holds
\* that pnl and outcome unchanged.
BodyOutcomeMatchesPnl(pnl, outcome) ==
    /\ pnl.t = "number"
    /\ outcome.t = "string"
    /\ (outcome.s = "Profit") = (pnl.n > 0)
    /\ (outcome.s = "Loss") = (pnl.n < 0)
    /\ (outcome.s = "Breakeven") = (pnl.n = 0)

C21_FormOutcomeMatchesPnl ==
    /\ submit.posts = 1 =>
            BodyOutcomeMatchesPnl(submit.body.pnl, submit.body.outcome)
    /\ submit.pc = "created" =>
            /\ resp.status = 201
            /\ store # <<>>
            /\ resp.body = <<store[Len(store)]>>
            /\ store[Len(store)].pnl = submit.body.pnl
            /\ store[Len(store)].outcome = submit.body.outcome
            /\ BodyOutcomeMatchesPnl(store[Len(store)].pnl,
                                     store[Len(store)].outcome)

\* A losing trade typed into the sized form has been created.
C21_Witness ==
    /\ form.values.variant = "sized"
    /\ submit.pc = "created"
    /\ resp.status = 201
    /\ Len(store) = 1
    /\ store[1].outcome = Str("Loss")
    /\ store[1].pnl.n < 0

\* C22: a trade that POST created stays readable by its owner: every later
\* step keeps the row as it is, GET /api/trades/{id} by the owner answers with
\* that row, GET /api/trades by the owner contains it, and a GET /api/trades
\* by the owner right after the POST has the created record as its first
\* element.
OwnedRows(st, user) == {t \in Rows(st) : t.userId = user}

C22_RowsKept ==
    /\ Len(store') >= Len(store)
    /\ \A i \in 1..Len(store) : store'[i] = store[i]

C22_ReadBack ==
    /\ (req'.handler = "GET /api/trades/{id}" /\ req'.user \in Users
            /\ req'.fail = "none") =>
          \A t \in OwnedRows(store, req'.user) :
              t.id = req'.id => (resp'.status = 200 /\ resp'.body = <<t>>)
    /\ (req'.handler = "GET /api/trades" /\ req'.user \in Users
            /\ req'.fail = "none") =>
          /\ resp'.status = 200
          /\ OwnedRows(store, req'.user) \subseteq Rows(resp'.body)

C22_NewestFirst ==
    (IsPost /\ resp.status = 201 /\ req'.handler = "GET /api/trades"
        /\ req'.user = req.user /\ req'.fail = "none") =>
        /\ resp'.body # <<>>
        /\ resp'.body[1] = resp.body[1]

C22_CreatedTradeReadable ==
    [][C22_RowsKept /\ C22_ReadBack /\ C22_NewestFirst]_vars

\* C23: a POST /api/trades that ends with 400 or 401 leaves the table as it
\* was before the request, and create was not called in it.
C23_RejectedPostWritesNothing ==
    (IsPost /\ resp.status \in {400, 401}) =>
        /\ store = req.before
        /\ \A i \in 1..Len(ops) : ops[i] # "create"

\* A table that holds a row has seen a POST turned away with 400 whose body
\* would have made a row the table accepts.
C23_Witness ==
    /\ IsPost
    /\ resp.status = 400
    /\ store # <<>>
    /\ RowAccepted(TradeData(req.user, req.body))

\* C24: isSubmitting is set when a submit starts, and is cleared again on
\* every path of the handler: a created trade, a response that is not ok, a
\* rejected fetch or unreadable body, and a cryptocurrency that is not among
\* the options.
C24_IsSubmittingEnds ==
    /\ [][(submit.pc = "idle" /\ submit'.pc # "idle") => submit'.isSubmitting]_vars
    /\ [](submit.pc # "idle" => submit.isSubmitting)
    /\ (submit.isSubmitting ~> (submit.pc = "idle" /\ ~submit.isSubmitting))

\* The handler has ended after the lookup of the cryptocurrency failed.
C24_Witness ==
    /\ page = "new"
    /\ form.pc = "calculated"
    /\ submit.pc = "idle"
    /\ submit.posts = 0
    /\ submit.toast = "Selected cryptocurrency not found"
    /\ ~submit.isSubmitting

\* C25 as stated: the form is reset and '/' is pushed exactly when the POST
\* response was ok; otherwise the values stay, nothing is pushed, and the
\* toast shows the server's error message, or 'Failed to create trade' when
\* there is none.
HandlerEnded == submit.pc = "idle" /\ form.pc # "filled"

ResponseOk ==
    /\ IsPost
    /\ resp.status = 201
    /\ submit.settled \in {"read", "Unexpected token"}

C25_ResetIffOk ==
    HandlerEnded =>
        /\ (form = IdleForm /\ submit.pushed = "/") <=> ResponseOk
        /\ ~ResponseOk =>
              /\ form.pc = "calculated"
              /\ submit.pushed = ""
              /\ submit.toast = IF IsPost /\ resp.error # "" THEN resp.error
                                ELSE "Failed to create trade"

\* C25 amended: the form is reset and '/' is pushed exactly when the POST
\* response was ok and its body was read; otherwise the values stay as they
\* were entered, nothing is pushed, and the toast shows the error field of a
\* response that was read (or 'Failed to create trade' when it is empty), or
\* else the message of the error that was thrown.
ErrorShown ==
    IF submit.posts = 0 THEN "Selected cryptocurrency not found"
    ELSE IF submit.settled # "read" THEN submit.settled
    ELSE IF resp.error # "" THEN resp.error
    ELSE "Failed to create trade"

C25_ResetIffOkAndRead ==
    /\ [](HandlerEnded =>
            /\ (form = IdleForm /\ submit.pushed = "/") <=>
                  (ResponseOk /\ submit.settled = "read")
            /\ ~(ResponseOk /\ submit.settled = "read") =>
                  /\ form.pc = "calculated"
                  /\ submit.pushed = ""
                  /\ submit.toast = ErrorShown)
    /\ [][submit.pc = "caught" => form' = form]_vars

\* The handler has ended after a created trade whose answer could not be
\* read: the values are still in the form.
C25_Witness ==
    /\ HandlerEnded
    /\ ResponseOk
    /\ store # <<>>
    /\ form.pc = "calculated"
    /\ submit.toast = "Unexpected token"

\* C26: a submit whose cryptoId matches no option sends no POST and leaves
\* the table alone; a POST that is sent carries the label of the matching
\* option as cryptoName, and the table changes only through a POST the form
\* sent.
C26_SubmitStep ==
    (submit.pc = "idle" /\ submit'.pc # "idle") =>
        /\ store' = store
        /\ (\A o \in CryptoOptions : o.value # form'.values.cryptoId) =>
              /\ submit'.posts = 0
              /\ submit'.pc = "caught"
        /\ submit'.posts = 1 =>
              \E o \in CryptoOptions :
                  /\ o.value = form'.values.cryptoId
                  /\ submit'.body.cryptoName = Str(o.label)

C26_StoreStep ==
    store' # store =>
        /\ submit.pc = "fetching"
        /\ submit.posts = 1
        /\ req'.body = submit.body
        /\ \E o \in CryptoOptions :
              /\ o.value = form.values.cryptoId
              /\ store'[Len(store')].cryptoName = Str(o.label)

C26_NoPostWithoutOption ==
    /\ [][C26_SubmitStep /\ C26_StoreStep]_vars
    /\ [](submit.pc = "fetching" => submit.posts = 1)
    /\ [](submit.posts = 0 => submit.body = NoBody)

\* With a trade in the table, a submit of an unlisted cryptocurrency has
\* ended without a POST.
C26_Witness ==
    /\ store # <<>>
    /\ form.pc = "calculated"
    /\ form.values.cryptoId = "unlisted"
    /\ submit.pc = "idle"
    /\ submit.posts = 0
    /\ submit.toast = "Selected cryptocurrency not found"

\* C27: useTrades starts with loading set, no trades and no error; its fetch
\* always ends with loading cleared; error is set exactly when the fetch or
\* the reading of the body threw or the response was not ok, and then trades
\* is still empty; otherwise trades is the body of the response and error
\* stays absent.
C27_UseTradesStates ==
    /\ [](list.pc = "fetching" =>
            /\ list.loading
            /\ list.trades = <<>>
            /\ list.error = "")
    /\ [](list.pc = "done" =>
            /\ ~list.loading
            /\ list.error # "" <=> (list.settled # "read" \/ list.status # 200)
            /\ list.error # "" => list.trades = <<>>
            /\ list.error = "" =>
                  /\ req.handler = "GET /api/trades"
                  /\ resp.status = 200
                  /\ list.trades = JSONRows(resp.body))
    /\ (list.pc = "fetching" ~> (list.pc = "done" /\ ~list.loading))

\* The loader has ended on a 500 answer while the table holds a trade.
C27_Witness ==
    /\ page = "list"
    /\ list.pc = "done"
    /\ list.status = 500
    /\ list.error = "Failed to fetch trades"
    /\ list.trades = <<>>
    /\ ~list.loading
    /\ store # <<>>

\* C28: on the trade detail page a 404 answer does not set the error state,
\* error is set for failures other than 404 only, and loading is always
\* cleared in the end.
C28_NotFoundIsNoError ==
    /\ [](detail.pc = "done" => (detail.status = 404 => detail.error = ""))
    /\ (detail.pc = "fetching" ~> ~detail.loading)

====
